---- MODULE Spec2Model ----
(***************************************************************************)
(* Model of src/query_agent.py: a Streamlit script that purges a Weaviate  *)
(* store, ingests uploaded tabular files into one collection per file and  *)
(* binds a QueryAgent to the ingested collections.                         *)
(*                                                                         *)
(* Strings are sequences of one-character strings, so that strip, lower,   *)
(* replace, re.sub and os.path.splitext are computed character by          *)
(* character as Python computes them.                                      *)
(***************************************************************************)
EXTENDS Integers, Sequences, FiniteSets, TLC

VARIABLES
    \* --- the Streamlit script and the store (specification Spec) ---
    store,                \* the Weaviate store: collection name -> [props, objects]
    query_agent,          \* st.session_state["query_agent"], NoAgent when the key is absent
    agent_ctor_calls,     \* number of QueryAgent(...) constructions so far
    uploaded_files,       \* value of the st.file_uploader widget (the files' names)
    query,                \* value of the st.text_input widget
    pc,                   \* position of the script run
    idx,                  \* index of the file the loop of process_uploaded_files is at
    collections_created,  \* local list of process_uploaded_files / `collections`
    table_schemas,        \* local list of process_uploaded_files
    errors_shown,         \* filenames for which st.error("Failed to read file") was shown
    replaced,             \* table names for which line 81 deleted an existing collection in this run
    ready,                \* st.success("Query agent is ready.") was shown in this run
    forwarded,            \* the question forwarded by query_agent.run in this run
    crashed,              \* the run ended by an uncaught exception
    \* --- clean_property_name on its own (specification SpecSanitize) ---
    name_in, name_out, name_out2,
    \* --- the schema loop on its own (specification SpecSchema) ---
    df_in, built

appVars    == <<store, query_agent, agent_ctor_calls, uploaded_files, query, pc, idx,
                collections_created, table_schemas, errors_shown,
                replaced, ready, forwarded, crashed>>
nameVars   == <<name_in, name_out, name_out2>>
schemaVars == <<df_in, built>>
vars       == <<appVars, nameVars, schemaVars>>

-----------------------------------------------------------------------------
(* Bounds *)
MaxLabelLen == 3        \* longest raw label given to clean_property_name
MaxCols     == 2        \* most columns of a table given to the schema loop
MaxRows     == 1        \* most rows of a table given to the schema loop
MaxBatch    == 2        \* most files in one upload

-----------------------------------------------------------------------------
(* Characters and strings *)

LowerLetters == <<"a","b","c","d","e","f","g","h","i","j","k","l","m",
                  "n","o","p","q","r","s","t","u","v","w","x","y","z">>
UpperLetters == <<"A","B","C","D","E","F","G","H","I","J","K","L","M",
                  "N","O","P","Q","R","S","T","U","V","W","X","Y","Z">>
Digits       == {"0","1","2","3","4","5","6","7","8","9"}
Whitespace   == {" ", "\t", "\n", "\r"}

Range(s) == {s[k] : k \in 1..Len(s)}

IsLetter(c)   == c \in Range(LowerLetters) \cup Range(UpperLetters)
\* the character class [a-zA-Z0-9_]
IsWordChar(c) == IsLetter(c) \/ c \in Digits \/ c = "_"

\* str.lower() on one character
LowerChar(c) ==
    IF c \in Range(UpperLetters)
    THEN LowerLetters[CHOOSE k \in 1..Len(UpperLetters) : UpperLetters[k] = c]
    ELSE c

\* str.lower()
Lower(s) == [k \in 1..Len(s) |-> LowerChar(s[k])]

\* str.replace(" ", "_")
ReplaceSpaces(s) == [k \in 1..Len(s) |-> IF s[k] = " " THEN "_" ELSE s[k]]

\* str.strip(): drop leading and trailing whitespace
Strip(s) ==
    LET keep == {k \in 1..Len(s) : s[k] \notin Whitespace}
    IN  IF keep = {} THEN <<>>
        ELSE LET lo == CHOOSE k \in keep : \A j \in keep : k <= j
                 hi == CHOOSE k \in keep : \A j \in keep : k >= j
             IN  SubSeq(s, lo, hi)

\* re.sub(r"[^a-zA-Z0-9_]", "_", s)
SubNonWord(s) == [k \in 1..Len(s) |-> IF IsWordChar(s[k]) THEN s[k] ELSE "_"]

\* re.match(r"^[a-zA-Z_]", s)
StartsWithLetterOrUnderscore(s) == Len(s) > 0 /\ (IsLetter(s[1]) \/ s[1] = "_")

\* re.fullmatch(r"[A-Za-z_][A-Za-z0-9_]*", s)
IsIdentifier(s) ==
    /\ StartsWithLetterOrUnderscore(s)
    /\ \A k \in 1..Len(s) : IsWordChar(s[k])

\* clean_property_name without its last step (the "_" prefix)
clean_property_name_noprefix(name) == SubNonWord(ReplaceSpaces(Lower(Strip(name))))

clean_property_name(name) ==
    LET n1 == ReplaceSpaces(Lower(Strip(name)))
        n2 == SubNonWord(n1)
    IN  IF ~StartsWithLetterOrUnderscore(n2) THEN <<"_">> \o n2 ELSE n2

RESERVED_NAMES == { <<"i","d">> }

-----------------------------------------------------------------------------
(* Specification SpecSanitize: clean_property_name applied to every raw    *)
(* label of bounded length, and applied again to its own result.           *)

LabelAlphabet == {"i", "d", "I", "D", " ", "-", "1", "_"}

RECURSIVE StringsUpTo(_, _)
StringsUpTo(alphabet, n) ==
    IF n = 0 THEN { <<>> }
    ELSE LET shorter == StringsUpTo(alphabet, n - 1)
         IN  shorter \cup {Append(s, c) : s \in shorter, c \in alphabet}

RawLabels == StringsUpTo(LabelAlphabet, MaxLabelLen)

\* the value of a result before it is computed
NotComputed == [computed |-> FALSE]

SanitizeInit ==
    /\ name_in \in RawLabels
    /\ name_out = NotComputed
    /\ name_out2 = NotComputed

\* clean_property_name(name_in)
Sanitize ==
    /\ ~name_out.computed
    /\ name_out' = [computed |-> TRUE, value |-> clean_property_name(name_in)]
    /\ UNCHANGED <<name_in, name_out2>>

\* clean_property_name applied to its own result
SanitizeAgain ==
    /\ name_out.computed
    /\ ~name_out2.computed
    /\ name_out2' = [computed |-> TRUE, value |-> clean_property_name(name_out.value)]
    /\ UNCHANGED <<name_in, name_out>>

-----------------------------------------------------------------------------
(* Tables (pandas DataFrames) and the schema loop of process_uploaded_files *)

NaN        == "NaN"                 \* an absent cell
NumValues  == {"1"}                 \* cells pandas reads as numbers
TextValues == {"x"}                 \* cells pandas reads as text
CellValues == {NaN} \cup NumValues \cup TextValues

NUMBER == "NUMBER"                  \* DataType.NUMBER
TEXT   == "TEXT"                    \* DataType.TEXT

\* A table is [columns |-> sequence of labels, rows |-> sequence of rows],
\* a row being a sequence of cells aligned with columns.
Column(df, k) == [r \in 1..Len(df.rows) |-> df.rows[r][k]]

SelectColumns(df, ks) ==
    [columns |-> [j \in 1..Len(ks) |-> df.columns[ks[j]]],
     rows    |-> [r \in 1..Len(df.rows) |-> [j \in 1..Len(ks) |-> df.rows[r][ks[j]]]]]

RECURSIVE SortedSeq(_)
\* the elements of a finite set of integers, ascending
SortedSeq(S) ==
    IF S = {} THEN <<>>
    ELSE LET m == CHOOSE x \in S : \A y \in S : x <= y
         IN  <<m>> \o SortedSeq(S \ {m})

\* df.dropna(axis=1, how='all'): drop the columns that have no present cell
dropna_all_columns(df) ==
    LET keep == {k \in 1..Len(df.columns) :
                    \E r \in 1..Len(df.rows) : df.rows[r][k] # NaN}
    IN  SelectColumns(df, SortedSeq(keep))

\* pd.api.types.is_numeric_dtype(df[col]): the column was read as a number
\* column, which pandas does when every present cell is a number
is_numeric_dtype(cells) == \A r \in 1..Len(cells) : cells[r] \in NumValues \cup {NaN}

FieldSuffix == <<"_","f","i","e","l","d">>

\* lines 68-70 with the reserved test made on the raw label
property_name_raw_test(col) ==
    LET col_clean == clean_property_name(col)
    IN  IF col \in RESERVED_NAMES THEN col_clean \o FieldSuffix ELSE col_clean

\* lines 68-70: the property name of one column
property_name(col) ==
    LET col_clean == clean_property_name(col)
    IN  IF col_clean \in RESERVED_NAMES THEN col_clean \o FieldSuffix ELSE col_clean

data_type(cells) == IF is_numeric_dtype(cells) THEN NUMBER ELSE TEXT

\* lines 62-75: df after dropna, props, rename_map and schema_desc of one file
build_schema(table_name, df_raw) ==
    LET df == dropna_all_columns(df_raw)
        n  == Len(df.columns)
        props == [k \in 1..n |-> [name      |-> property_name(df.columns[k]),
                                  data_type |-> data_type(Column(df, k))]]
    IN  [df          |-> df,
         props       |-> props,
         rename_map  |-> [col \in Range(df.columns) |-> property_name(col)],
         schema_desc |-> [table |-> table_name,
                          lines |-> [k \in 1..n |->
                                       <<props[k].name,
                                         IF props[k].data_type = NUMBER
                                         THEN "Number" ELSE "Text">>]]]

\* line 77: df.rename(columns=rename_map)
rename_columns(df, rename_map) ==
    [df EXCEPT !.columns = [k \in 1..Len(df.columns) |-> rename_map[df.columns[k]]]]

\* line 88: row.dropna().to_dict(); of two present cells under one name the
\* later column's cell is the one the dict keeps
row_object(columns, row) ==
    LET present == {k \in 1..Len(columns) : row[k] # NaN}
        last(a) == CHOOSE k \in present :
                      /\ columns[k] = a
                      /\ \A j \in present : columns[j] = a => j <= k
    IN  [a \in {columns[k] : k \in present} |-> row[last(a)]]

\* lines 86-88: the objects added for the rows of the renamed df, in order
row_objects(df) == [r \in 1..Len(df.rows) |-> row_object(df.columns, df.rows[r])]

-----------------------------------------------------------------------------
(* Specification SpecSchema: the schema loop applied to every table of     *)
(* bounded size whose column labels are pairwise distinct (pandas makes    *)
(* the labels of a parsed file distinct).                                  *)

ColumnLabels == { <<"i","d">>, <<"I","D">>, <<" ","i","d">>,
                  <<"i","d","_","f","i","e","l","d">>,
                  <<"i"," ","d">>, <<"i","-","d">> }

RECURSIVE SeqsUpTo(_, _)
\* the sequences over S of length at most n
SeqsUpTo(S, n) ==
    IF n = 0 THEN { <<>> }
    ELSE LET shorter == SeqsUpTo(S, n - 1)
         IN  shorter \cup {Append(s, x) : s \in shorter, x \in S}

IsInjective(s) == \A j, k \in 1..Len(s) : j # k => s[j] # s[k]

SchemaTableName == <<"t">>

SchemaInit ==
    /\ \E n \in 0..MaxCols, r \in 0..MaxRows :
          \E cols \in [1..n -> ColumnLabels], rws \in [1..r -> [1..n -> CellValues]] :
             /\ IsInjective(cols)
             /\ df_in = [columns |-> cols, rows |-> rws]
    /\ built = NotComputed

\* lines 62-75
BuildSchema ==
    /\ ~built.computed
    /\ built' = [computed |-> TRUE, renamed |-> FALSE,
                 schema |-> build_schema(SchemaTableName, df_in)]
    /\ UNCHANGED df_in

\* line 77
RenameColumns ==
    /\ built.computed
    /\ ~built.renamed
    /\ built' = [built EXCEPT !.schema.df = rename_columns(@, built.schema.rename_map),
                              !.renamed   = TRUE]
    /\ UNCHANGED df_in

-----------------------------------------------------------------------------
(* Uploaded files and the store *)

\* os.path.splitext(filename)[0]; an uploaded file's name has no path separator
splitext_root(p) ==
    LET dots == {k \in 1..Len(p) : p[k] = "."}
    IN  IF dots = {} THEN p
        ELSE LET dotIndex == CHOOSE k \in dots : \A j \in dots : j <= k
             IN  IF \E k \in 1..(dotIndex - 1) : p[k] # "."
                 THEN SubSeq(p, 1, dotIndex - 1)
                 ELSE p

\* line 54
table_name_of(filename) == Lower(ReplaceSpaces(splitext_root(filename)))

\* str.endswith
EndsWith(s, suffix) ==
    /\ Len(s) >= Len(suffix)
    /\ SubSeq(s, Len(s) - Len(suffix) + 1, Len(s)) = suffix

DotXlsx == <<".","x","l","s","x">>

\* line 57 succeeds: the reader chosen by the filename can read the content
parses(file) ==
    IF EndsWith(file.name, DotXlsx) THEN file.kind = "xlsx" ELSE file.kind = "csv"

\* The files a user can upload: two readable files whose names differ and
\* derive the same table name, a readable file of another name, and a file
\* that cannot be read.
FileA  == [name  |-> <<"a"," ","b",".","c","s","v">>, kind |-> "csv",
           table |-> [columns |-> << <<"I","D">> >>, rows |-> << <<"1">> >>]]
FileA2 == [name  |-> <<"A","_","b",".","x","l","s","x">>, kind |-> "xlsx",
           table |-> [columns |-> << <<"i","-","d">>, <<"i"," ","d">> >>,
                      rows    |-> << <<"x", "1">> >>]]
FileB  == [name  |-> <<"b",".","c","s","v">>, kind |-> "garbage",
           table |-> [columns |-> <<>>, rows |-> <<>>]]
FileC  == [name  |-> <<"c",".","c","s","v">>, kind |-> "csv",
           table |-> [columns |-> << <<"d">>, <<"I"," ","D">>, <<"1">> >>,
                      rows    |-> << <<"x", "1", NaN>> >>]]
Catalogue == {FileA, FileA2, FileB, FileC}

FileNames == {f.name : f \in Catalogue}

\* the uploaded file of a name: the uploader hands over the name and the content
FileNamed(name) == CHOOSE f \in Catalogue : f.name = name

\* an upload: files of pairwise distinct names, named here by their names
Batches == {b \in SeqsUpTo(FileNames, MaxBatch) : IsInjective(b)}

\* Collections left in the store by an earlier session.
StaleCollection == [props   |-> << [name |-> <<"o">>, data_type |-> TEXT] >>,
                    objects |-> << (<<"o">> :> "x") >>]
EmptyStore == << >>
StaleStore == (<<"a","_","b">> :> StaleCollection)

\* client.collections.list_all()
list_all(s) == DOMAIN s
\* client.collections.exists(name)
exists(s, name) == name \in DOMAIN s
\* client.collections.delete(name)
delete(s, name) == [n \in DOMAIN s \ {name} |-> s[n]]
\* client.collections.create(name, properties=props), name not in the store
create(s, name, props) == (name :> [props |-> props, objects |-> <<>>]) @@ s
\* batch.add_object for each of objs
add_objects(s, name, objs) == [s EXCEPT ![name].objects = @ \o objs]

\* lines 80-82 done as an update in place of an existing collection
provision_in_place(s, name, props) ==
    IF exists(s, name) THEN [s EXCEPT ![name].props = props]
    ELSE create(s, name, props)

\* lines 80-82: delete and recreate the collection
provision(s, name, props) ==
    create(IF exists(s, name) THEN delete(s, name) ELSE s, name, props)

\* lines 62-88 for one parsed file: the store after the file is ingested
ingest_table(s, table_name, table) ==
    LET b  == build_schema(table_name, table)
        df == rename_columns(b.df, b.rename_map)
    IN  add_objects(provision(s, table_name, b.props), table_name, row_objects(df))

NoAgent    == [id |-> 0]
NoQuestion == [question |-> ""]
Questions  == {"q1", "q2"}

\* lines 139-144 constructing a QueryAgent on every run
ensure_agent_always(agent, calls, collections, schema_prompt) ==
    [agent |-> [id |-> calls + 1, collections |-> collections,
                system_prompt |-> schema_prompt],
     calls |-> calls + 1]

\* lines 139-144: construct the QueryAgent unless session_state holds one
ensure_agent(agent, calls, collections, schema_prompt) ==
    IF agent = NoAgent
    THEN [agent |-> [id |-> calls + 1, collections |-> collections,
                     system_prompt |-> schema_prompt],
          calls |-> calls + 1]
    ELSE [agent |-> agent, calls |-> calls]

-----------------------------------------------------------------------------
(* Specification Spec: runs of the Streamlit script.  Streamlit runs the   *)
(* whole script again whenever the user changes a widget; session_state    *)
(* and the widgets' values survive from run to run, the script's globals   *)
(* and locals do not.                                                      *)

AppInit ==
    /\ store = StaleStore
    /\ query_agent = NoAgent
    /\ agent_ctor_calls = 0
    /\ uploaded_files = <<>>
    /\ query = ""
    /\ pc = "purge"
    /\ idx = 0
    /\ collections_created = <<>>
    /\ table_schemas = <<>>
    /\ errors_shown = <<>>
    /\ replaced = {}
    /\ ready = FALSE
    /\ forwarded = NoQuestion
    /\ crashed = FALSE

\* a new run of the script starts at line 1
StartRun ==
    /\ pc' = "purge"
    /\ idx' = 0
    /\ collections_created' = <<>>
    /\ table_schemas' = <<>>
    /\ errors_shown' = <<>>
    /\ replaced' = {}
    /\ ready' = FALSE
    /\ forwarded' = NoQuestion
    /\ crashed' = FALSE

\* the user changes the files in the st.file_uploader of line 106
UserUploads ==
    /\ pc = "idle"
    /\ \E batch \in Batches :
          /\ batch # uploaded_files
          /\ uploaded_files' = batch
    /\ StartRun
    /\ UNCHANGED <<store, query_agent, agent_ctor_calls, query>>

\* the user enters a question in the st.text_input of line 149
UserAsks ==
    /\ pc = "idle"
    /\ ready
    /\ \E q \in Questions :
          /\ q # query
          /\ query' = q
    /\ StartRun
    /\ UNCHANGED <<store, query_agent, agent_ctor_calls, uploaded_files>>

\* lines 30-35 and 103: delete_existing_collections deletes every collection
delete_existing_collections ==
    /\ pc = "purge"
    /\ store' = EmptyStore
    /\ pc' = "upload"
    /\ UNCHANGED <<query_agent, agent_ctor_calls, uploaded_files, query, idx,
                   collections_created, table_schemas, errors_shown, replaced,
                   ready, forwarded, crashed>>

\* lines 30-37 and 103: list_all or one delete raises; the except clause shows
\* the error and the script goes on with the collections not yet deleted
delete_existing_collections_raises ==
    /\ pc = "purge"
    /\ \E kept \in SUBSET list_all(store) :
          /\ kept # {} \/ list_all(store) = {}
          /\ store' = [n \in kept |-> store[n]]
    /\ pc' = "upload"
    /\ UNCHANGED <<query_agent, agent_ctor_calls, uploaded_files, query, idx,
                   collections_created, table_schemas, errors_shown, replaced,
                   ready, forwarded, crashed>>

\* line 123 with no uploaded file: the run ends; the text_input is not
\* rendered, so Streamlit drops its value
NoFiles ==
    /\ pc = "upload"
    /\ uploaded_files = <<>>
    /\ pc' = "idle"
    /\ query' = ""
    /\ UNCHANGED <<store, query_agent, agent_ctor_calls, uploaded_files, idx,
                   collections_created, table_schemas, errors_shown,
                   replaced, ready, forwarded, crashed>>

\* lines 123-124, 49-50: process_uploaded_files is entered
BeginIngest ==
    /\ pc = "upload"
    /\ uploaded_files # <<>>
    /\ pc' = "files"
    /\ idx' = 1
    /\ collections_created' = <<>>
    /\ table_schemas' = <<>>
    /\ UNCHANGED <<store, query_agent, agent_ctor_calls, uploaded_files, query,
                   errors_shown, replaced, ready, forwarded, crashed>>

\* lines 56-60: the file cannot be read; the error is shown and the loop continues
ParseFails ==
    /\ pc = "files"
    /\ idx <= Len(uploaded_files)
    /\ ~parses(FileNamed(uploaded_files[idx]))
    /\ errors_shown' = Append(errors_shown, uploaded_files[idx])
    /\ idx' = idx + 1
    /\ UNCHANGED <<store, query_agent, agent_ctor_calls, uploaded_files, query, pc,
                   collections_created, table_schemas, replaced,
                   ready, forwarded, crashed>>

\* lines 53-92 for a file that is read and stored without an exception
IngestFile ==
    /\ pc = "files"
    /\ idx <= Len(uploaded_files)
    /\ parses(FileNamed(uploaded_files[idx]))
    /\ LET file       == FileNamed(uploaded_files[idx])
           table_name == table_name_of(file.name)
       IN  /\ store' = ingest_table(store, table_name, file.table)
           /\ replaced' = IF exists(store, table_name)
                          THEN replaced \cup {table_name} ELSE replaced
           /\ table_schemas' =
                 Append(table_schemas, build_schema(table_name, file.table).schema_desc)
           /\ collections_created' = Append(collections_created, table_name)
    /\ idx' = idx + 1
    /\ UNCHANGED <<query_agent, agent_ctor_calls, uploaded_files, query, pc,
                   errors_shown, ready, forwarded, crashed>>

\* lines 80-88 for a file that is read, when a call on the store raises: no
\* except clause encloses these lines, so the exception ends the script run
StoreRaises ==
    /\ pc = "files"
    /\ idx <= Len(uploaded_files)
    /\ parses(FileNamed(uploaded_files[idx]))
    /\ LET file       == FileNamed(uploaded_files[idx])
           table_name == table_name_of(file.name)
           b          == build_schema(table_name, file.table)
           objs       == row_objects(rename_columns(b.df, b.rename_map))
           dropped    == IF exists(store, table_name)
                         THEN delete(store, table_name) ELSE store
       IN  \E stage \in {"exists", "delete", "create", "load"} :
              \/ /\ stage = "exists"
                 /\ UNCHANGED <<store, replaced>>
              \/ /\ stage = "delete"
                 /\ exists(store, table_name)
                 /\ UNCHANGED <<store, replaced>>
              \/ /\ stage = "create"
                 /\ store' = dropped
                 /\ replaced' = IF exists(store, table_name)
                                THEN replaced \cup {table_name} ELSE replaced
              \/ /\ stage = "load"
                 /\ \E k \in 0..Len(objs) :
                       store' = add_objects(provision(store, table_name, b.props),
                                            table_name, SubSeq(objs, 1, k))
                 /\ replaced' = IF exists(store, table_name)
                                THEN replaced \cup {table_name} ELSE replaced
    /\ crashed' = TRUE
    /\ pc' = "idle"
    /\ idx' = 0
    /\ collections_created' = <<>>
    /\ table_schemas' = <<>>
    /\ query' = ""
    /\ UNCHANGED <<query_agent, agent_ctor_calls, uploaded_files, errors_shown,
                   ready, forwarded>>

\* lines 94, 124-146: process_uploaded_files returns, the agent is created
\* unless session_state holds one, "Query agent is ready." is shown
SetupAgent ==
    /\ pc = "files"
    /\ idx > Len(uploaded_files)
    /\ LET r == ensure_agent(query_agent, agent_ctor_calls,
                             collections_created, table_schemas)
       IN  /\ query_agent' = r.agent
           /\ agent_ctor_calls' = r.calls
    /\ ready' = TRUE
    /\ pc' = "query"
    /\ UNCHANGED <<store, uploaded_files, query, idx, collections_created,
                   table_schemas, errors_shown, replaced, forwarded,
                   crashed>>

\* lines 149-155 with a question: it is forwarded to the agent of session_state
RunQuery ==
    /\ pc = "query"
    /\ query # ""
    /\ query_agent # NoAgent
    /\ forwarded' = [question |-> query, agent |-> query_agent]
    /\ pc' = "idle"
    /\ UNCHANGED <<store, query_agent, agent_ctor_calls, uploaded_files, query, idx,
                   collections_created, table_schemas, errors_shown,
                   replaced, ready, crashed>>

\* lines 149-150 with an empty text_input: nothing is forwarded
NoQuery ==
    /\ pc = "query"
    /\ query = ""
    /\ pc' = "idle"
    /\ UNCHANGED <<store, query_agent, agent_ctor_calls, uploaded_files, query, idx,
                   collections_created, table_schemas, errors_shown,
                   replaced, ready, forwarded, crashed>>

\* the variables a specification does not use keep one value
NamesIdle  == name_in = <<>> /\ name_out = NotComputed /\ name_out2 = NotComputed
SchemaIdle == df_in = [columns |-> <<>>, rows |-> <<>>] /\ built = NotComputed
AppIdle    == AppInit

Init == AppInit /\ NamesIdle /\ SchemaIdle

Next ==
    \/ UserUploads /\ UNCHANGED <<nameVars, schemaVars>>
    \/ UserAsks    /\ UNCHANGED <<nameVars, schemaVars>>
    \/ delete_existing_collections /\ UNCHANGED <<nameVars, schemaVars>>
    \/ delete_existing_collections_raises /\ UNCHANGED <<nameVars, schemaVars>>
    \/ NoFiles     /\ UNCHANGED <<nameVars, schemaVars>>
    \/ BeginIngest /\ UNCHANGED <<nameVars, schemaVars>>
    \/ ParseFails  /\ UNCHANGED <<nameVars, schemaVars>>
    \/ IngestFile  /\ UNCHANGED <<nameVars, schemaVars>>
    \/ StoreRaises /\ UNCHANGED <<nameVars, schemaVars>>
    \/ SetupAgent  /\ UNCHANGED <<nameVars, schemaVars>>
    \/ RunQuery    /\ UNCHANGED <<nameVars, schemaVars>>
    \/ NoQuery     /\ UNCHANGED <<nameVars, schemaVars>>

Spec == Init /\ [][Next]_vars

SanitizeNext ==
    \/ Sanitize      /\ UNCHANGED <<appVars, schemaVars>>
    \/ SanitizeAgain /\ UNCHANGED <<appVars, schemaVars>>

InitSanitize == AppIdle /\ SanitizeInit /\ SchemaIdle

SpecSanitize == InitSanitize /\ [][SanitizeNext]_vars

SchemaNext ==
    \/ BuildSchema   /\ UNCHANGED <<appVars, nameVars>>
    \/ RenameColumns /\ UNCHANGED <<appVars, nameVars>>

InitSchema == AppIdle /\ NamesIdle /\ SchemaInit

SpecSchema == InitSchema /\ [][SchemaNext]_vars

-----------------------------------------------------------------------------
(* Claims about clean_property_name (SpecSanitize)                         *)

\* C7: for every raw label, clean_property_name returns a string matching
\* ^[A-Za-z_][A-Za-z0-9_]*$, and applying it to its own result returns that
\* result unchanged.
C7_SanitizeIdentifierIdempotent ==
    /\ name_out.computed => IsIdentifier(name_out.value)
    /\ name_out2.computed => name_out2.value = name_out.value

\* a label starting with a digit and holding a symbol was sanitized twice
C7_Witness ==
    /\ name_out2.computed
    /\ Len(name_in) = MaxLabelLen
    /\ name_in[1] \in Digits
    /\ \E k \in 1..Len(name_in) : ~IsWordChar(name_in[k])
    /\ name_out.value # name_in

-----------------------------------------------------------------------------
(* Claims about the schema loop (SpecSchema)                               *)

IdField == <<"i","d">> \o FieldSuffix

HasPresentCell(df, k) == \E r \in 1..Len(df.rows) : df.rows[r][k] # NaN

\* C5: the attribute names of the schema built for a table are pairwise
\* distinct, in the property list and in the schema description.
C5_AttributeNamesDistinct ==
    built.computed =>
        /\ IsInjective([k \in 1..Len(built.schema.props) |-> built.schema.props[k].name])
        /\ IsInjective([k \in 1..Len(built.schema.schema_desc.lines) |->
                           built.schema.schema_desc.lines[k][1]])

\* C6: every column whose sanitized label is "id" appears in the schema as
\* "id_field", the rename map sends its label to "id_field", and no attribute
\* name of the schema is a reserved name.
C6_ReservedRenamed ==
    built.computed =>
        LET sc == built.schema
        IN  /\ \A k \in 1..Len(df_in.columns) :
                  HasPresentCell(df_in, k) => df_in.columns[k] \in DOMAIN sc.rename_map
            /\ \A col \in DOMAIN sc.rename_map :
                  clean_property_name(col) \in RESERVED_NAMES =>
                      /\ sc.rename_map[col] = IdField
                      /\ \E k \in 1..Len(sc.props) : sc.props[k].name = IdField
                      /\ \E k \in 1..Len(sc.schema_desc.lines) :
                            sc.schema_desc.lines[k][1] = IdField
            /\ \A k \in 1..Len(sc.props) : sc.props[k].name \notin RESERVED_NAMES
            /\ \A k \in 1..Len(sc.schema_desc.lines) :
                  sc.schema_desc.lines[k][1] \notin RESERVED_NAMES
            /\ built.renamed =>
                  \A k \in 1..Len(sc.df.columns) : sc.df.columns[k] \notin RESERVED_NAMES

\* a column labelled "ID", which is not itself the reserved name, went
\* through the loop and the rename
C6_Witness ==
    /\ built.computed
    /\ built.renamed
    /\ <<"I","D">> \in DOMAIN built.schema.rename_map
    /\ IdField \in Range(built.schema.df.columns)

-----------------------------------------------------------------------------
(* Claims about the script and the store (Spec)                            *)

\* a run over a non-empty upload has ended
RunWithFilesEnded == pc = "idle" /\ uploaded_files # <<>>

\* C1: a failure of any stage for one file (parse, delete, create, load) is
\* recorded and never aborts the batch: every file of the batch is either
\* ingested or reported, and the call returns.
C1_BadFileNeverAborts ==
    RunWithFilesEnded =>
        /\ ~crashed
        /\ Len(collections_created) + Len(errors_shown) = Len(uploaded_files)

\* the files of the batch read so far (the loop is past them)
IngestedFilesFor(name) ==
    {j \in 1..(idx - 1) : /\ j <= Len(uploaded_files)
                          /\ parses(FileNamed(uploaded_files[j]))
                          /\ table_name_of(uploaded_files[j]) = name}

\* C2: every collection name the run has ingested is in the store with the
\* schema and exactly the row objects of the run's (latest) file of that
\* name; nothing of an earlier collection of that name remains.
C2_LatestRunOnly ==
    \A k \in 1..Len(collections_created) :
        LET name  == collections_created[k]
            files == IngestedFilesFor(name)
        IN  /\ files # {}
            /\ exists(store, name)
            /\ LET j  == CHOOSE x \in files : \A y \in files : y <= x
                   t  == FileNamed(uploaded_files[j]).table
                   b  == build_schema(name, t)
               IN  /\ store[name].props = b.props
                   /\ store[name].objects =
                         row_objects(rename_columns(b.df, b.rename_map))
                   /\ Len(store[name].objects) = Len(t.rows)

\* a run over one file has returned, and ingesting the file replaced a
\* collection of its name that was in the store before the run's ingestion
C2_Witness ==
    /\ ready
    /\ Len(uploaded_files) = 1
    /\ collections_created = << <<"a","_","b">> >>
    /\ replaced = { <<"a","_","b">> }

\* C3: when the first file of a batch starts to be processed, no collection
\* from before the run is in the store.
C3_PurgedBeforeFirstFile ==
    (pc = "files" /\ idx = 1) => list_all(store) = {}

\* C4: the QueryAgent is constructed at most once, and once session_state
\* holds it every later step observes that same object.
C4_SessionCreatedOnce ==
    [][/\ agent_ctor_calls' <= 1
       /\ query_agent # NoAgent => query_agent' = query_agent]_vars

\* a second question was forwarded, after another upload, to the agent that
\* an earlier run had created for its own batch
C4_Witness ==
    /\ forwarded # NoQuestion
    /\ forwarded.question = "q2"
    /\ forwarded.agent.id = 1
    /\ agent_ctor_calls = 1
    /\ forwarded.agent.collections # collections_created

\* C8: the collection names derived from the distinct filenames of a batch
\* are pairwise distinct, and so are the returned collection names.
C8_CollectionNamesDistinct ==
    /\ IsInjective(uploaded_files) =>
          IsInjective([k \in 1..Len(uploaded_files) |-> table_name_of(uploaded_files[k])])
    /\ IsInjective(collections_created)

\* C9: after a non-empty batch of which no file was ingested, no agent is
\* bound to the empty collection list, "ready" is not shown and no question
\* is forwarded.
C9_NoSessionForEmptyBatch ==
    (uploaded_files # <<>> /\ collections_created = <<>> /\ pc \in {"query", "idle"}) =>
        /\ ~ready
        /\ forwarded = NoQuestion
        /\ query_agent # NoAgent => query_agent.collections # <<>>

\* C10: a forwarded question goes to an agent bound to exactly the
\* collections of the latest ingestion, all of them in the store.
C10_SessionBoundToLatest ==
    forwarded # NoQuestion =>
        /\ Range(forwarded.agent.collections) = Range(collections_created)
        /\ Range(forwarded.agent.collections) \subseteq list_all(store)

====
